---------------------------- MODULE Spec2Model ----------------------------
(***************************************************************************)
(* A model of docs-fill (src/main.py): the template-introspection and      *)
(* rendering pipeline of a small FastAPI application.                      *)
(*                                                                         *)
(* Python strings are modelled as sequences of one-character strings, so   *)
(* that sorting, parsing and formatting are computed character by          *)
(* character the way the interpreter computes them.                        *)
(***************************************************************************)
EXTENDS Integers, Sequences, FiniteSets, TLC

(***************************************************************************)
(* Bounds of the model.                                                    *)
(***************************************************************************)
\* the longest metadata document (number of top-level keys) drawn in SchemaSpec
MaxMetaEntries == 2
\* the largest number of form fields, besides the selectors, in one submission
MaxFormKeys == 2
\* temporary directories that may exist at once before no request is admitted
MaxTmpDirs == 2

(***************************************************************************)
(* Python str: characters, code points, comparison.                        *)
(***************************************************************************)
CharCodes ==
    (" " :> 32) @@ ("+" :> 43) @@ ("," :> 44) @@ ("-" :> 45) @@ ("." :> 46) @@
    ("0" :> 48) @@ ("1" :> 49) @@ ("2" :> 50) @@ ("3" :> 51) @@ ("4" :> 52) @@
    ("5" :> 53) @@ ("6" :> 54) @@ ("7" :> 55) @@ ("8" :> 56) @@ ("9" :> 57) @@
    ("D" :> 68) @@ ("F" :> 70) @@ ("P" :> 80) @@ ("Y" :> 89) @@ ("Z" :> 90) @@
    ("_" :> 95) @@
    ("a" :> 97) @@ ("b" :> 98) @@ ("c" :> 99) @@ ("d" :> 100) @@ ("e" :> 101) @@
    ("f" :> 102) @@ ("g" :> 103) @@ ("h" :> 104) @@ ("i" :> 105) @@
    ("l" :> 108) @@ ("m" :> 109) @@ ("n" :> 110) @@ ("o" :> 111) @@
    ("p" :> 112) @@ ("s" :> 115) @@ ("t" :> 116) @@ ("u" :> 117) @@
    ("x" :> 120) @@ ("y" :> 121)

\* str.__lt__: lexicographic comparison by code point
StrLess(a, b) ==
    \E i \in 1..(Len(a) + 1) :
        /\ \A j \in 1..(i - 1) : j <= Len(b) /\ a[j] = b[j]
        /\ i <= Len(b)
        /\ \/ i > Len(a)
           \/ CharCodes[a[i]] < CharCodes[b[i]]

\* the mutant of sorted(): descending order
RECURSIVE SortedDescending(_)
SortedDescending(S) ==
    IF S = {} THEN <<>>
    ELSE LET m == CHOOSE x \in S : \A y \in S \ {x} : StrLess(y, x)
         IN  <<m>> \o SortedDescending(S \ {m})

\* sorted(vars_): the elements of a set of str in ascending order
RECURSIVE sorted(_)
sorted(S) ==
    IF S = {} THEN <<>>
    ELSE LET m == CHOOSE x \in S : \A y \in S \ {x} : StrLess(x, y)
         IN  <<m>> \o sorted(S \ {m})

\* str.lower() on the letters of the alphabet
LowerChar(c) ==
    CASE c = "D" -> "d" [] c = "F" -> "f" [] c = "P" -> "p"
      [] c = "Y" -> "y" [] c = "Z" -> "z" [] OTHER -> c

lower(s) == [i \in 1..Len(s) |-> LowerChar(s[i])]

(***************************************************************************)
(* Names used by the templates and forms of the model.                     *)
(***************************************************************************)
K_Zip    == <<"Z", "i", "p">>
K_amount == <<"a", "m", "o", "u", "n", "t">>
K_count  == <<"c", "o", "u", "n", "t">>
K_date   == <<"d", "a", "t", "e">>
K_flag   == <<"f", "l", "a", "g">>
K_name   == <<"n", "a", "m", "e">>
K_tpl    == <<"t", "p", "l">>
K_fmt    == <<"f", "m", "t">>
K_ghost  == <<"g", "h", "o", "s", "t">>
K_extra  == <<"e", "x", "t", "r", "a">>

S_string == <<"s", "t", "r", "i", "n", "g">>
S_date   == <<"d", "a", "t", "e">>
S_int    == <<"i", "n", "t">>
S_float  == <<"f", "l", "o", "a", "t">>
S_bool   == <<"b", "o", "o", "l">>
S_money  == <<"m", "o", "n", "e", "y">>
S_docx   == <<"d", "o", "c", "x">>
S_pdf    == <<"p", "d", "f">>
S_PDF    == <<"P", "D", "F">>
S_Date   == <<"D", "a", "t", "e">>

\* the types the specification admits for a Field Definition
FieldTypes == {S_string, S_date, S_int, S_float, S_bool}

(***************************************************************************)
(* Metadata (load_yaml_meta) and the Field Schema Builder.                 *)
(*                                                                         *)
(* A metadata document is the sequence of the top-level entries of the     *)
(* YAML mapping in file order, each <<key, value>>.  A value is a mapping  *)
(* with any of the keys label, type, choices (a record), or YAML null.     *)
(***************************************************************************)
PyNone == [py_none |-> TRUE]

\* yaml.safe_load of a mapping: a dict; of an empty or absent file: {}
RECURSIVE load_yaml_meta(_)
load_yaml_meta(doc) ==
    IF doc = <<>> THEN <<>>
    ELSE LET rest == load_yaml_meta(SubSeq(doc, 1, Len(doc) - 1))
             e    == doc[Len(doc)]
         IN  [k \in (DOMAIN rest) \cup {e[1]} |->
                 IF k = e[1] THEN e[2] ELSE rest[k]]

\* dict.get(k, default)
Get(m, k, default) == IF k \in DOMAIN m THEN m[k] ELSE default

FieldDef(v, m) ==
    [name    |-> v,
     label   |-> Get(m, "label", v),
     type    |-> Get(m, "type", S_string),
     choices |-> Get(m, "choices", <<>>)]

\* the mutant of the builder: one field per metadata key as well
BuildFieldDefsFromMeta(vars_, meta) ==
    LET order == sorted(vars_ \cup DOMAIN meta)
    IN  IF \E v \in vars_ \cup DOMAIN meta : Get(meta, v, <<>>) = PyNone
        THEN [ok |-> FALSE, err |-> "AttributeError", fields |-> <<>>]
        ELSE [ok |-> TRUE, err |-> "",
              fields |-> [i \in 1..Len(order) |->
                             FieldDef(order[i], Get(meta, order[i], <<>>))]]

\* build_field_defs, lines 81-90: the loop over sorted(vars_).  m.get on a
\* YAML null raises AttributeError and no list is returned.
BuildFieldDefs(vars_, meta) ==
    LET order == sorted(vars_)
    IN  IF \E v \in vars_ : Get(meta, v, <<>>) = PyNone
        THEN [ok |-> FALSE, err |-> "AttributeError", fields |-> <<>>]
        ELSE [ok |-> TRUE, err |-> "",
              fields |-> [i \in 1..Len(order) |->
                             FieldDef(order[i], Get(meta, order[i], <<>>))]]


(***************************************************************************)
(* Value Coercion Engine: the parsers generate() applies, lines 159-171.   *)
(* A coerced value is a record [t, s, n, e]: a str (s), an int (n), a      *)
(* float n / 10^e with no trailing zero digit, or a bool (n = 1 for True). *)
(***************************************************************************)
PyStr(s)      == [t |-> "str",   s |-> s,    n |-> 0, e |-> 0]
PyInt(n)      == [t |-> "int",   s |-> <<>>, n |-> n, e |-> 0]
PyBool(b)     == [t |-> "bool",  s |-> <<>>, n |-> IF b THEN 1 ELSE 0, e |-> 0]

RECURSIVE PyFloat(_, _)
PyFloat(n, e) ==
    IF n = 0 THEN [t |-> "float", s |-> <<>>, n |-> 0, e |-> 0]
    ELSE IF e > 0 /\ n % 10 = 0 THEN PyFloat(n \div 10, e - 1)
    ELSE [t |-> "float", s |-> <<>>, n |-> n, e |-> e]

DigitChars == <<"0", "1", "2", "3", "4", "5", "6", "7", "8", "9">>

IsDigit(c) == \E i \in 1..Len(DigitChars) : DigitChars[i] = c

DigitVal(c) == (CHOOSE i \in 1..Len(DigitChars) : DigitChars[i] = c) - 1

AllDigits(s) == \A i \in 1..Len(s) : IsDigit(s[i])

\* the value of a string of decimal digits
RECURSIVE DecimalValue(_)
DecimalValue(s) ==
    IF s = <<>> THEN 0
    ELSE 10 * DecimalValue(SubSeq(s, 1, Len(s) - 1)) + DigitVal(s[Len(s)])

\* str.strip() of blanks
RECURSIVE strip(_)
strip(s) ==
    IF s = <<>> THEN s
    ELSE IF Head(s) = " " THEN strip(Tail(s))
    ELSE IF s[Len(s)] = " " THEN strip(SubSeq(s, 1, Len(s) - 1))
    ELSE s

\* the first position of character c in s at or after position from, or 0
IndexFrom(s, c, from) ==
    IF \E i \in from..Len(s) : s[i] = c
    THEN CHOOSE i \in from..Len(s) : s[i] = c /\ \A j \in from..(i - 1) : s[j] # c
    ELSE 0

\* _strptime's pattern for %m: 1[0-2]|0[1-9]|[1-9]
MonthToken(s) ==
    \/ Len(s) = 2 /\ s[1] = "1" /\ s[2] \in {"0", "1", "2"}
    \/ Len(s) = 2 /\ s[1] = "0" /\ IsDigit(s[2]) /\ s[2] # "0"
    \/ Len(s) = 1 /\ IsDigit(s[1]) /\ s[1] # "0"

\* _strptime's pattern for %d: 3[0-1]|[1-2]\d|0[1-9]|[1-9]| [1-9]
DayToken(s) ==
    \/ Len(s) = 2 /\ s[1] = "3" /\ s[2] \in {"0", "1"}
    \/ Len(s) = 2 /\ s[1] \in {"1", "2"} /\ IsDigit(s[2])
    \/ Len(s) = 2 /\ s[1] \in {"0", " "} /\ IsDigit(s[2]) /\ s[2] # "0"
    \/ Len(s) = 1 /\ IsDigit(s[1]) /\ s[1] # "0"

IsLeap(y) == (y % 4 = 0 /\ y % 100 # 0) \/ y % 400 = 0

DaysInMonth(y, m) ==
    IF m = 2 THEN (IF IsLeap(y) THEN 29 ELSE 28)
    ELSE IF m \in {4, 6, 9, 11} THEN 30 ELSE 31

\* datetime.datetime.strptime(raw, "%Y-%m-%d"): the year is four digits,
\* month and day take one or two; the whole string must be consumed and the
\* date must exist (the year 0 does not)
strptime(raw) ==
    LET bad  == [ok |-> FALSE, y |-> 0, m |-> 0, d |-> 0]
        dash == IndexFrom(raw, "-", 6)
    IN  IF Len(raw) < 8 \/ ~AllDigits(SubSeq(raw, 1, 4)) \/ raw[5] # "-" \/ dash = 0
        THEN bad
        ELSE LET ms == SubSeq(raw, 6, dash - 1)
                 ds == SubSeq(raw, dash + 1, Len(raw))
             IN  IF ~MonthToken(ms) \/ ~DayToken(ds) THEN bad
                 ELSE LET y == DecimalValue(SubSeq(raw, 1, 4))
                          m == DecimalValue(ms)
                          d == DecimalValue(strip(ds))
                      IN  IF y < 1 \/ d > DaysInMonth(y, m) THEN bad
                          ELSE [ok |-> TRUE, y |-> y, m |-> m, d |-> d]

\* the decimal digits of n, at least width of them
RECURSIVE Digits(_, _)
Digits(n, width) ==
    IF n < 10 /\ width <= 1 THEN <<DigitChars[n + 1]>>
    ELSE Digits(n \div 10, width - 1) \o <<DigitChars[(n % 10) + 1]>>

\* strftime("%d.%m.%Y"): day and month are zero-padded to two digits; the C
\* library decides whether a year below 1000 is padded to four (padYear)
strftime(dt, padYear) ==
    Digits(dt.d, 2) \o <<".">> \o Digits(dt.m, 2) \o <<".">>
        \o Digits(dt.y, IF padYear THEN 4 ELSE 1)

\* int(raw): blanks stripped, an optional sign, decimal digits
int(raw) ==
    LET s    == strip(raw)
        neg  == s # <<>> /\ Head(s) = "-"
        body == IF s # <<>> /\ Head(s) \in {"+", "-"} THEN Tail(s) ELSE s
    IN  IF body = <<>> \/ ~AllDigits(body) THEN [ok |-> FALSE, v |-> PyInt(0)]
        ELSE [ok |-> TRUE,
              v |-> PyInt(IF neg THEN 0 - DecimalValue(body) ELSE DecimalValue(body))]

\* raw.replace(",", ".")
replace_comma(raw) == [i \in 1..Len(raw) |-> IF raw[i] = "," THEN "." ELSE raw[i]]

\* float(s): blanks stripped, an optional sign, digits with at most one
\* point and at least one digit (no exponent letter occurs in the inputs)
float(raw) ==
    LET s    == strip(raw)
        neg  == s # <<>> /\ Head(s) = "-"
        body == IF s # <<>> /\ Head(s) \in {"+", "-"} THEN Tail(s) ELSE s
        dot  == IndexFrom(body, ".", 1)
        ip   == IF dot = 0 THEN body ELSE SubSeq(body, 1, dot - 1)
        fp   == IF dot = 0 THEN <<>> ELSE SubSeq(body, dot + 1, Len(body))
        num  == DecimalValue(ip \o fp)
    IN  IF ~AllDigits(ip) \/ ~AllDigits(fp) \/ ip \o fp = <<>>
        THEN [ok |-> FALSE, v |-> PyFloat(0, 0)]
        ELSE [ok |-> TRUE, v |-> PyFloat(IF neg THEN 0 - num ELSE num, Len(fp))]

S_yes  == <<"y", "e", "s">>
S_true == <<"t", "r", "u", "e">>
S_1    == <<"1">>

\* one arm of the match statement, lines 159-171
Coerce(type, raw, padYear) ==
    IF type = S_date THEN
        LET dt == strptime(raw)
        IN  IF dt.ok THEN [ok |-> TRUE, v |-> PyStr(strftime(dt, padYear))]
            ELSE [ok |-> FALSE, v |-> PyStr(<<>>)]
    ELSE IF type = S_int THEN int(raw)
    ELSE IF type = S_float THEN float(replace_comma(raw))
    ELSE IF type = S_bool THEN
        [ok |-> TRUE, v |-> PyBool(lower(raw) \in {S_yes, S_true, S_1})]
    ELSE [ok |-> TRUE, v |-> PyStr(raw)]


(***************************************************************************)
(* Template Store: the files under docs_dir.  Read-only while the process  *)
(* runs.  A template file is                                               *)
(*   kind    "valid", "notzip" (not a package at all) or "badxml" (a       *)
(*           package whose word/document.xml is not well-formed markup);   *)
(*   xml     the body of word/document.xml as a sequence of segments: a    *)
(*           "simple" placeholder {{ x }}, a "split" one (formatting tags  *)
(*           inside the braces), or a "block" use ({% if x %});            *)
(*   meta    the sidecar metadata document (<<>> when there is no file).   *)
(***************************************************************************)
N_plain  == <<"p", "l", "a", "i", "n">>
N_act    == <<"a", "c", "t">>
N_nums   == <<"n", "u", "m", "s">>
N_notzip == <<"n", "o", "t", "z", "i", "p">>
N_badxml == <<"b", "a", "d", "x", "m", "l">>

\* the i-th of an unbounded supply of further valid templates
BulkName(i) == <<"b">> \o Digits(i, 1)

\* the templates the requests of the model select
TemplateNames == {N_act, N_nums, N_notzip, N_badxml}

Seg(kind, name) == [kind |-> kind, name |-> name]

TemplateFile(name) ==
    IF name = N_plain THEN
        [kind |-> "valid",
         xml  |-> <<Seg("simple", K_name), Seg("simple", K_amount)>>,
         meta |-> <<>>]
    ELSE IF name = N_act THEN
        [kind |-> "valid",
         xml  |-> <<Seg("simple", K_tpl), Seg("block", K_Zip),
                    Seg("simple", K_date)>>,
         meta |-> << <<K_date, [type |-> S_date, label |-> S_Date]>>,
                     <<K_ghost, [type |-> S_int]>>,
                     <<K_Zip, [type |-> S_money]>> >>]
    ELSE IF name = N_nums THEN
        [kind |-> "valid",
         xml  |-> <<Seg("block", K_flag), Seg("split", K_count),
                    Seg("simple", K_amount)>>,
         meta |-> << <<K_flag, [type |-> S_bool]>>,
                     <<K_amount, [type |-> S_float]>>,
                     <<K_count, [type |-> S_int]>> >>]
    ELSE IF name = N_notzip THEN
        [kind |-> "notzip", xml |-> <<>>, meta |-> <<>>]
    ELSE IF name = N_badxml THEN
        [kind |-> "badxml", xml |-> <<Seg("simple", K_name)>>, meta |-> <<>>]
    ELSE
        [kind |-> "valid", xml |-> <<Seg("simple", K_name)>>, meta |-> <<>>]

(***************************************************************************)
(* Placeholder Extractor: get_vars and its lru_cache.                      *)
(***************************************************************************)
\* functools.lru_cache without arguments: maxsize = 128
LruMaxSize == 128

Ok(vs)   == [ok |-> TRUE,  err |-> "",  vars |-> vs]
Fail(e)  == [ok |-> FALSE, err |-> e,   vars |-> {}]

\* doc.get_undeclared_template_variables(): every variable the template uses
undeclared_template_variables(file) ==
    {file.xml[i].name : i \in 1..Len(file.xml)}

\* re.findall(r"{{\s*([a-zA-Z0-9_]+)\s*}}", xml): the simple placeholders
findall(xml) ==
    {xml[i].name : i \in {j \in 1..Len(xml) : xml[j].kind = "simple"}}

\* _extract_vars_from_docx: zipfile.ZipFile raises on a file that is no
\* archive; the scan itself does not parse the markup
extract_vars_from_docx(file) ==
    IF file.kind = "notzip" THEN Fail("BadZipFile") ELSE Ok(findall(file.xml))

\* What DocxTemplate(path) and get_undeclared_template_variables() can do on
\* a file.  A file that is not document markup makes the library raise its
\* parse error (never AttributeError); on a valid file the facility may
\* succeed, be missing or break (AttributeError), or raise another error.
LibraryOutcomes(file) ==
    IF file.kind = "notzip" THEN {"PackageNotFoundError"}
    ELSE IF file.kind = "badxml" THEN {"XMLSyntaxError"}
    ELSE {"ok", "AttributeError", "TemplateSyntaxError"}

\* the errors a corrupt template raises (TemplateCorrupt in the design)
TemplateCorruptErrors == {"PackageNotFoundError", "XMLSyntaxError"}

\* the mutant of get_vars: a broad except that falls back on any error
GetVarsBodyCatchAll(file, lib) ==
    IF lib = "ok"
    THEN [res |-> Ok(undeclared_template_variables(file)), fallback |-> FALSE]
    ELSE [res |-> extract_vars_from_docx(file), fallback |-> TRUE]

\* the body of get_vars, lines 62-67
GetVarsBody(file, lib) ==
    IF lib = "ok"
    THEN [res |-> Ok(undeclared_template_variables(file)), fallback |-> FALSE]
    ELSE IF lib = "AttributeError"
    THEN [res |-> extract_vars_from_docx(file), fallback |-> TRUE]
    ELSE [res |-> Fail(lib), fallback |-> FALSE]

\* the cache of lru_cache: entries [key, value], least recently used first
CacheIndex(c, k) ==
    IF \E i \in 1..Len(c) : c[i].key = k
    THEN CHOOSE i \in 1..Len(c) : c[i].key = k
    ELSE 0

Remove(c, i) == SubSeq(c, 1, i - 1) \o SubSeq(c, i + 1, Len(c))

\* a hit moves the entry to the most recently used end
LruHit(c, i) == Append(Remove(c, i), c[i])

\* a miss stores the result; a full cache drops its least recently used entry
LruStore(c, k, v) ==
    Append(IF Len(c) >= LruMaxSize THEN Tail(c) ELSE c, [key |-> k, value |-> v])

\* get_vars(template_name) under @lru_cache: an exception is not cached
get_vars(c, name, lib) ==
    LET i == CacheIndex(c, name)
    IN  IF i # 0
        THEN [res |-> Ok(c[i].value), cache |-> LruHit(c, i),
              hit |-> TRUE, fallback |-> FALSE]
        ELSE LET b == GetVarsBody(TemplateFile(name), lib)
             IN  [res |-> b.res,
                  cache |-> IF b.res.ok THEN LruStore(c, name, b.res.vars) ELSE c,
                  hit |-> FALSE, fallback |-> b.fallback]

\* build_field_defs(template_name), lines 78-90
build_field_defs(c, name, lib) ==
    LET g == get_vars(c, name, lib)
        b == BuildFieldDefs(g.res.vars, load_yaml_meta(TemplateFile(name).meta))
    IN  IF ~g.res.ok
        THEN [ok |-> FALSE, err |-> g.res.err, fields |-> <<>>, get |-> g]
        ELSE [ok |-> b.ok, err |-> b.err, fields |-> b.fields, get |-> g]


(***************************************************************************)
(* The state.                                                              *)
(***************************************************************************)
VARIABLES
    s_vars,     \* SchemaSpec: the Placeholder Set given to the builder
    s_doc,      \* SchemaSpec: the metadata document given to the builder
    s_out,      \* SchemaSpec: what the builder returned
    cache,      \* the lru_cache of get_vars
    returned,   \* the template names get_vars has returned a set for
    recomputed, \* those whose extraction ran again after that
    last_get,   \* what the last call of get_vars did
    tmpDirs,    \* the temporary directories that exist on disk
    pc,         \* where the generate handler stands
    form,       \* generate: the submitted form
    data,       \* generate: the form without the selectors
    tpl,        \* generate: the selected template
    fmt,        \* generate: the requested format, lower-cased
    fields,     \* generate: the Field Definitions of the template
    ctx,        \* generate: the Render Context
    work_dir,   \* generate: the temporary directory of the request (0: none)
    files,      \* generate: the files in work_dir, by suffix
    file_path,  \* generate: the suffix of the file to return
    buf,        \* generate: the bytes read from file_path
    log,        \* generate: the operations of the request, in order
    response,   \* the last response sent
    fill_out    \* the Field Schema the last fill request rendered

vars == <<s_vars, s_doc, s_out, cache, returned, recomputed, last_get, tmpDirs,
          pc, form, data, tpl, fmt, fields, ctx, work_dir, files, file_path,
          buf, log, response, fill_out>>

schemaVars == <<s_vars, s_doc, s_out>>
cacheVars  == <<cache, returned, recomputed, last_get>>
reqVars    == <<form, data, tpl, fmt, fields, ctx, work_dir, files, file_path,
                buf, log>>

NoResponse == [status |-> 0, error |-> "", detail |-> "", field |-> <<>>,
               expected |-> <<>>, body |-> "", media |-> ""]

NoGet == [name |-> <<>>, hit |-> FALSE, fallback |-> FALSE, ok |-> FALSE,
          err |-> "", lib |-> ""]

InitPipeline ==
    /\ cache = <<>> /\ returned = {} /\ recomputed = {} /\ last_get = NoGet
    /\ tmpDirs = {} /\ pc = "idle"
    /\ form = <<>> /\ data = <<>> /\ tpl = <<>> /\ fmt = <<>>
    /\ fields = <<>> /\ ctx = <<>> /\ work_dir = 0 /\ files = {}
    /\ file_path = "" /\ buf = "" /\ log = <<>>
    /\ response = NoResponse /\ fill_out = <<>>

NotRun == [ok |-> FALSE, err |-> "not run", fields |-> <<>>]

InitSchemaIdle == s_vars = {} /\ s_doc = <<>> /\ s_out = NotRun

Init == InitSchemaIdle /\ InitPipeline

(***************************************************************************)
(* The effect of one call of get_vars on the cache and its bookkeeping.    *)
(***************************************************************************)
RecordGet(name, lib, g) ==
    /\ cache' = g.cache
    /\ returned' = IF g.res.ok THEN returned \cup {name} ELSE returned
    /\ recomputed' = IF ~g.hit /\ name \in returned
                     THEN recomputed \cup {name} ELSE recomputed
    /\ last_get' = [name |-> name, hit |-> g.hit, fallback |-> g.fallback,
                    ok |-> g.res.ok, err |-> g.res.err,
                    lib |-> IF g.hit THEN "" ELSE lib]

(***************************************************************************)
(* GET /fill/{tpl}, lines 131-142.                                         *)
(***************************************************************************)
\* what the library may do in a call of get_vars: on a hit it is not called
LibraryChoices(c, name) ==
    IF CacheIndex(c, name) # 0 THEN {"ok"} ELSE LibraryOutcomes(TemplateFile(name))

FillTemplate(name) ==
    /\ pc = "idle"
    /\ \E lib \in LibraryChoices(cache, name) :
          LET b == build_field_defs(cache, name, lib)
          IN  /\ RecordGet(name, lib, b.get)
              /\ fill_out' = [tpl |-> name, ok |-> b.ok, err |-> b.err,
                              fields |-> b.fields]
    /\ pc' = "done"
    /\ UNCHANGED <<schemaVars, tmpDirs, reqVars, response>>

Fill == \E name \in TemplateNames : FillTemplate(name)

(***************************************************************************)
(* POST /generate, lines 145-193.                                          *)
(***************************************************************************)
\* the form fields a submission may carry besides tpl and fmt
FormKeys == {K_amount, K_date, K_flag, K_extra}

R_leap   == <<"2", "0", "2", "4", "-", "0", "2", "-", "2", "9">>
R_noleap == <<"2", "0", "2", "3", "-", "0", "2", "-", "2", "9">>
R_short  == <<"2", "0", "2", "4", "-", "1", "-", "5">>
R_y999   == <<"0", "9", "9", "9", "-", "0", "1", "-", "0", "5">>
R_comma  == <<"1", ",", "5">>
R_Yes    == <<"Y", "e", "s">>

RawValues == {R_leap, R_noleap, R_short, R_y999, R_comma, R_Yes}

\* the values of the fmt selector; <<>> stands for a form without it
FmtValues == {S_docx, S_PDF}

\* the fields of a submission besides the selectors
FieldSubmissions ==
    UNION {[K -> RawValues] :
              K \in {X \in SUBSET FormKeys : Cardinality(X) <= MaxFormKeys}}

\* the submitted form: the fields and the selectors sel
Form(v, sel) ==
    [k \in (DOMAIN v) \cup (DOMAIN sel) |-> IF k \in DOMAIN sel THEN sel[k] ELSE v[k]]

\* the selectors of a form: tpl, and fmt when it is submitted
Selectors(names) ==
    {(K_tpl :> n) : n \in names}
        \cup {(K_tpl :> n) @@ (K_fmt :> f) : n \in names, f \in FmtValues}

\* dict.pop(k): the dict without k
Pop(d, k) == [x \in (DOMAIN d) \ {k} |-> d[x]]

\* the mutant of the coercion loop: a field the form does not carry is skipped
RECURSIVE CoerceAllSkipAbsent(_, _, _, _)
CoerceAllSkipAbsent(fs, d, padYear, acc) ==
    IF fs = <<>> THEN [ok |-> TRUE, ctx |-> acc]
    ELSE LET f == Head(fs)
             c == Coerce(f.type, Get(d, f.name, <<>>), padYear)
         IN  IF f.name \notin DOMAIN d
             THEN CoerceAllSkipAbsent(Tail(fs), d, padYear, acc)
             ELSE IF ~c.ok THEN [ok |-> FALSE, ctx |-> acc]
             ELSE CoerceAllSkipAbsent(Tail(fs), d, padYear,
                      [k \in (DOMAIN acc) \cup {f.name} |->
                          IF k = f.name THEN c.v ELSE acc[k]])

\* the loop of lines 157-171: ctx so far is acc; the first field that does
\* not parse raises ValueError
RECURSIVE CoerceAll(_, _, _, _)
CoerceAll(fs, d, padYear, acc) ==
    IF fs = <<>> THEN [ok |-> TRUE, ctx |-> acc]
    ELSE LET f == Head(fs)
             c == Coerce(f.type, Get(d, f.name, <<>>), padYear)
         IN  IF ~c.ok THEN [ok |-> FALSE, ctx |-> acc]
             ELSE CoerceAll(Tail(fs), d, padYear,
                      [k \in (DOMAIN acc) \cup {f.name} |->
                          IF k = f.name THEN c.v ELSE acc[k]])

\* whether the C library pads the year: it shows only for a year below 1000
PlatformChoices(d) ==
    IF \E k \in DOMAIN d : strptime(d[k]).ok /\ strptime(d[k]).y < 1000
    THEN BOOLEAN ELSE {TRUE}

\* an exception no handler catches: FastAPI answers 500 and says no more
ServerError(e) == [NoResponse EXCEPT !.status = 500, !.error = e]

\* HTTPException(500, detail)
HttpError(d) == [NoResponse EXCEPT !.status = 500, !.error = "HTTPException",
                                   !.detail = d]

\* a form without tpl: data.pop("tpl") raises KeyError, line 153
GenerateNoTpl ==
    /\ pc = "idle"
    /\ \E v \in FieldSubmissions :
          /\ form' = v
          /\ data' = v
    /\ pc' = "done"
    /\ response' = ServerError("KeyError")
    /\ tpl' = <<>> /\ fmt' = <<>> /\ fields' = <<>> /\ ctx' = <<>>
    /\ work_dir' = 0 /\ files' = {} /\ file_path' = "" /\ buf' = ""
    /\ log' = <<>>
    /\ UNCHANGED <<schemaVars, cacheVars, tmpDirs, fill_out>>

\* lines 147-171: the form is read, the selectors are popped, the schema is
\* built and every field is coerced
GenerateCoerce ==
    /\ pc = "idle"
    /\ \E v \in FieldSubmissions :
       \E sel \in Selectors(TemplateNames) :
       \E lib \in LibraryChoices(cache, sel[K_tpl]) :
       \E padYear \in PlatformChoices(v) :
          LET f == Form(v, sel)
              d == Pop(Pop(f, K_tpl), K_fmt)
              b == build_field_defs(cache, f[K_tpl], lib)
              c == CoerceAll(b.fields, d, padYear, <<>>)
          IN  /\ form' = f
              /\ data' = d
              /\ tpl' = f[K_tpl]
              /\ fmt' = lower(Get(f, K_fmt, S_docx))
              /\ RecordGet(f[K_tpl], lib, b.get)
              /\ fields' = b.fields
              /\ ctx' = IF b.ok /\ c.ok THEN c.ctx ELSE <<>>
              /\ pc' = IF b.ok /\ c.ok THEN "render" ELSE "done"
              /\ response' = IF ~b.ok THEN ServerError(b.err)
                             ELSE IF ~c.ok THEN ServerError("ValueError")
                             ELSE NoResponse
    /\ work_dir' = 0 /\ files' = {} /\ file_path' = "" /\ buf' = ""
    /\ log' = <<>>
    /\ UNCHANGED <<schemaVars, tmpDirs, fill_out>>


\* tempfile.TemporaryDirectory().__enter__: a directory no request holds
FreshDir == CHOOSE d \in 1..(Cardinality(tmpDirs) + 1) : d \notin tmpDirs

\* the mutant of the scoped directory: removed on the normal exit only
TemporaryDirectoryExitNoFinally(dirs, d, raised) ==
    IF raised THEN dirs ELSE dirs \ {d}

\* TemporaryDirectory.__exit__: the directory is removed however the block
\* of lines 173-190 is left
TemporaryDirectoryExit(dirs, d, raised) == dirs \ {d}

\* the request ends with an exception raised inside the with block, after
\* the operations events
RaiseInside(d, events, resp) ==
    /\ tmpDirs' = TemporaryDirectoryExit(tmpDirs \cup {d}, d, TRUE)
    /\ log' = log \o events \o <<"cleanup">>
    /\ pc' = "done"
    /\ response' = resp

\* the bytes of the document rendered from template t, in format f
Content(t, f) == [tpl |-> t, format |-> f]

\* lines 173-178: the directory is made, the template rendered and saved
GenerateRender ==
    /\ pc = "render"
    /\ Cardinality(tmpDirs) < MaxTmpDirs
    /\ work_dir' = FreshDir
    /\ \E outcome \in {"ok", "render raises", "save raises"} :
          IF outcome = "ok"
          THEN /\ tmpDirs' = tmpDirs \cup {FreshDir}
               /\ files' = {"docx"}
               /\ log' = <<"mkdtemp", "render", "save">>
               /\ pc' = IF fmt = S_pdf THEN "convert" ELSE "read"
               /\ file_path' = IF fmt = S_pdf THEN "" ELSE "docx"
               /\ UNCHANGED response
          ELSE /\ RaiseInside(FreshDir,
                                IF outcome = "render raises"
                                THEN <<"mkdtemp", "render">>
                                ELSE <<"mkdtemp", "render", "save">>,
                                ServerError(outcome))
               /\ files' = {}
               /\ UNCHANGED file_path
    /\ form' = <<>> /\ data' = <<>> /\ fields' = <<>> /\ ctx' = <<>>
    /\ UNCHANGED <<schemaVars, cacheVars, tpl, fmt, buf, fill_out>>

\* what docx2pdf can do: convert and write the file, report success without
\* a file, be missing (ImportError), refuse the host (NotImplementedError),
\* or fail otherwise
BackendAOutcomes == {"ok", "ok, no file", "ImportError", "NotImplementedError",
                     "RuntimeError"}

\* the mutant of the except clause of line 99: any exception falls through
BackendAUnavailableAnyError(outcome) == outcome \notin {"ok", "ok, no file"}

\* except (ImportError, NotImplementedError), line 99
BackendAUnavailable(outcome) == outcome \in {"ImportError", "NotImplementedError"}

\* convert_to_pdf, lines 94-100: backend A
ConvertBackendA ==
    /\ pc = "convert"
    /\ \E outcome \in BackendAOutcomes :
          IF outcome \in {"ok", "ok, no file"}
          THEN /\ files' = IF outcome = "ok" THEN files \cup {"pdf"} ELSE files
               /\ file_path' = "pdf"
               /\ log' = log \o <<"A", outcome>>
               /\ pc' = "read"
               /\ UNCHANGED <<tmpDirs, response>>
          ELSE IF BackendAUnavailable(outcome)
          THEN /\ pc' = "locate"
               /\ log' = log \o <<"A", outcome>>
               /\ UNCHANGED <<tmpDirs, response, files, file_path>>
          ELSE /\ RaiseInside(work_dir, <<"A", outcome>>, ServerError(outcome))
               /\ UNCHANGED <<files, file_path>>
    /\ UNCHANGED <<schemaVars, cacheVars, form, data, tpl, fmt, fields, ctx,
                   work_dir, buf, fill_out>>

\* an optional str: <<>> is None, <<s>> is the str s
None == <<>>
Some(s) == <<s>>
Truthy(x) == x # None /\ x[1] # <<>>

\* a or b
Or(a, b) == IF Truthy(a) THEN a ELSE b

P_opt == <<"/", "o", "p", "t", "/", "s", "o", "f", "f", "i", "c", "e">>
P_bin == <<"/", "b", "i", "n", "/", "s", "o", "f", "f", "i", "c", "e">>
P_lib == <<"/", "b", "i", "n", "/", "l", "i", "b", "r", "e">>

\* os.environ.get("SOFFICE_PATH"): unset, empty, or a path
EnvValues == {None, Some(<<>>), Some(P_opt)}

\* the mutant of the lookup: the name soffice is used when nothing is found
LocateSofficeDefault(env, whichSoffice, whichLibre) ==
    Or(Or(Or(env, whichSoffice), whichLibre), Some(P_bin))

\* lines 101-105
LocateSoffice(env, whichSoffice, whichLibre) ==
    Or(Or(env, whichSoffice), whichLibre)

\* the lookups the or-chain of lines 101-105 evaluates, in order, each with
\* whether it gave a usable path
Lookups(env, whichSoffice, whichLibre) ==
    IF Truthy(env) THEN <<"env: set">>
    ELSE <<"env: none">> \o
         (IF Truthy(whichSoffice) THEN <<"which soffice: found">>
          ELSE <<"which soffice: none">> \o
               (IF Truthy(whichLibre) THEN <<"which libreoffice: found">>
                ELSE <<"which libreoffice: none">>))

\* convert_to_pdf, lines 101-107: the external program is located
ConvertLocate ==
    /\ pc = "locate"
    /\ \E env \in EnvValues :
       \E ws \in {None, Some(P_bin)} :
       \E wl \in {None, Some(P_lib)} :
          LET soffice == LocateSoffice(env, ws, wl)
          IN  IF soffice = None
              THEN RaiseInside(work_dir, Lookups(env, ws, wl),
                               HttpError("LibreOffice not found"))
              ELSE /\ pc' = "run"
                   /\ log' = log \o Lookups(env, ws, wl)
                   /\ UNCHANGED <<tmpDirs, response>>
    /\ UNCHANGED <<schemaVars, cacheVars, form, data, tpl, fmt, fields, ctx,
                   work_dir, files, file_path, buf, fill_out>>

\* convert_to_pdf, lines 108-115: backend B, the external program is run
ConvertBackendB ==
    /\ pc = "run"
    /\ \E outcome \in {"exit 0", "exit 0, no file", "exit 1", "OSError"} :
          IF outcome \in {"exit 0", "exit 0, no file"}
          THEN /\ files' = IF outcome = "exit 0" THEN files \cup {"pdf"} ELSE files
               /\ file_path' = "pdf"
               /\ log' = log \o <<"B", outcome>>
               /\ pc' = "read"
               /\ UNCHANGED <<tmpDirs, response>>
          ELSE /\ RaiseInside(work_dir, <<"B", outcome>>,
                     IF outcome = "exit 1" THEN HttpError("stderr")
                     ELSE ServerError(outcome))
               /\ UNCHANGED <<files, file_path>>
    /\ UNCHANGED <<schemaVars, cacheVars, form, data, tpl, fmt, fields, ctx,
                   work_dir, buf, fill_out>>

\* lines 188-190: the file is read into memory
GenerateRead ==
    /\ pc = "read"
    /\ IF file_path \in files /\ work_dir \in tmpDirs
       THEN /\ buf' = Content(tpl, file_path)
            /\ log' = Append(log, "read")
            /\ pc' = "respond"
            /\ UNCHANGED <<tmpDirs, response>>
       ELSE /\ RaiseInside(work_dir, <<>>, ServerError("FileNotFoundError"))
            /\ UNCHANGED buf
    /\ UNCHANGED <<schemaVars, cacheVars, form, data, tpl, fmt, fields, ctx,
                   work_dir, files, file_path, fill_out>>

MediaType(suffix) ==
    IF suffix = "pdf" THEN "application/pdf"
    ELSE "application/vnd.openxmlformats-officedocument.wordprocessingml.document"

\* the with block is left, lines 190-193: the directory goes, the response
\* streams the buffer
GenerateRespond ==
    /\ pc = "respond"
    /\ tmpDirs' = TemporaryDirectoryExit(tmpDirs, work_dir, FALSE)
    /\ log' = Append(log, "cleanup")
    /\ response' = [NoResponse EXCEPT !.status = 200, !.body = buf,
                                      !.media = MediaType(file_path)]
    /\ pc' = "done"
    /\ UNCHANGED <<schemaVars, cacheVars, form, data, tpl, fmt, fields, ctx,
                   work_dir, files, file_path, buf, fill_out>>

\* the handler has returned: its locals are gone and the response is sent
Finish ==
    /\ pc = "done"
    /\ pc' = "idle"
    /\ last_get' = NoGet
    /\ form' = <<>> /\ data' = <<>> /\ tpl' = <<>> /\ fmt' = <<>>
    /\ fields' = <<>> /\ ctx' = <<>> /\ work_dir' = 0 /\ files' = {}
    /\ file_path' = "" /\ buf' = "" /\ log' = <<>>
    /\ response' = NoResponse /\ fill_out' = <<>>
    /\ UNCHANGED <<schemaVars, cache, returned, recomputed, tmpDirs>>

Next ==
    \/ Fill
    \/ GenerateNoTpl
    \/ GenerateCoerce
    \/ GenerateRender
    \/ ConvertBackendA
    \/ ConvertLocate
    \/ ConvertBackendB
    \/ GenerateRead
    \/ GenerateRespond
    \/ Finish

Spec == Init /\ [][Next]_vars


(***************************************************************************)
(* SchemaSpec: the Field Schema Builder on every Placeholder Set and       *)
(* metadata document of the bounded sets below.                            *)
(***************************************************************************)
SchemaNames == {K_Zip, K_amount, K_date}

MetaKeys == SchemaNames \cup {K_ghost}

\* an empty mapping, a type, a label with an unknown type, choices, null
MetaEntries == {<<>>, [type |-> S_date], [label |-> S_Date, type |-> S_money],
                [choices |-> <<R_Yes, R_comma>>], PyNone}

\* the YAML mappings of at most MaxMetaEntries keys, keys distinct
MetaDocs ==
    {d \in UNION {[1..n -> MetaKeys \X MetaEntries] : n \in 0..MaxMetaEntries} :
        \A i, j \in 1..Len(d) : i # j => d[i][1] # d[j][1]}

InitSchema ==
    /\ s_vars \in SUBSET SchemaNames
    /\ s_doc \in MetaDocs
    /\ s_out = NotRun
    /\ InitPipeline

SchemaBuild ==
    /\ s_out = NotRun
    /\ s_out' = BuildFieldDefs(s_vars, load_yaml_meta(s_doc))
    /\ UNCHANGED <<s_vars, s_doc, cacheVars, tmpDirs, pc, reqVars, response,
                   fill_out>>

SchemaNext == SchemaBuild

SchemaSpec == InitSchema /\ [][SchemaNext]_vars

(***************************************************************************)
(* CacheSpec: get_vars called, through the fill handler, for the template  *)
(* plain and for as many further templates as the cache holds.             *)
(***************************************************************************)
\* the bulk templates get_vars has returned a set for
BulkReturned == Cardinality(returned \ {N_plain})

CacheFillPlain == FillTemplate(N_plain)

CacheFillBulk ==
    /\ BulkReturned < LruMaxSize
    /\ FillTemplate(BulkName(BulkReturned + 1))

CacheNext == CacheFillPlain \/ CacheFillBulk \/ Finish

CacheSpec == Init /\ [][CacheNext]_vars


(***************************************************************************)
(* Helpers of the properties.                                              *)
(***************************************************************************)
FieldNames(fs) == {fs[i].name : i \in 1..Len(fs)}

Count(s, e) == Cardinality({i \in 1..Len(s) : s[i] = e})

\* the first position of e in s, or 0
Position(s, e) ==
    IF \E i \in 1..Len(s) : s[i] = e THEN CHOOSE i \in 1..Len(s) :
        s[i] = e /\ \A j \in 1..(i - 1) : s[j] # e
    ELSE 0

Before(s, a, b) == Position(s, a) # 0 /\ Position(s, a) < Position(s, b)

AttemptsA == Count(log, "A")
AttemptsB == Count(log, "B")

\* what backend A reported, "" when it was not attempted
OutcomeA == IF AttemptsA = 0 THEN "" ELSE log[Position(log, "A") + 1]

(***************************************************************************)
(* C1.  The list build_field_defs returns has exactly one Field Definition *)
(* per name of the Placeholder Set and no other: a metadata entry for a    *)
(* variable absent from the template gives no field, and a placeholder     *)
(* without metadata entry gives the field (label = name, type = "string",  *)
(* choices = []).                                                          *)
(***************************************************************************)
C1_FieldsAreThePlaceholders ==
    s_out.ok =>
        LET meta == load_yaml_meta(s_doc)
        IN  /\ Len(s_out.fields) = Cardinality(s_vars)
            /\ FieldNames(s_out.fields) = s_vars
            /\ \A k \in (DOMAIN meta) \ s_vars : k \notin FieldNames(s_out.fields)
            /\ \A i \in 1..Len(s_out.fields) :
                  s_out.fields[i].name \notin DOMAIN meta =>
                      s_out.fields[i] = [name    |-> s_out.fields[i].name,
                                         label   |-> s_out.fields[i].name,
                                         type    |-> S_string,
                                         choices |-> <<>>]

C1_Witness ==
    /\ s_out.ok
    /\ Cardinality(s_vars) >= 2
    /\ \E i \in 1..Len(s_doc) : s_doc[i][1] \notin s_vars
    /\ \E v \in s_vars : \A i \in 1..Len(s_doc) : s_doc[i][1] # v
    /\ \E v \in s_vars : \E i \in 1..Len(s_doc) : s_doc[i][1] = v

(***************************************************************************)
(* C2.  The Field Definitions come in ascending order of name, and a       *)
(* metadata document that differs only in the order of its keys gives the  *)
(* same list.                                                              *)
(***************************************************************************)
Reordered(doc, p) == [i \in 1..Len(doc) |-> doc[p[i]]]

C2_SortedAndOrderIndependent ==
    s_out.ok =>
        /\ \A i, j \in 1..Len(s_out.fields) :
              i < j => StrLess(s_out.fields[i].name, s_out.fields[j].name)
        /\ \A p \in Permutations(1..Len(s_doc)) :
              BuildFieldDefs(s_vars, load_yaml_meta(Reordered(s_doc, p))) = s_out

C2_Witness ==
    /\ s_out.ok
    /\ Len(s_doc) >= 2
    /\ Len(s_out.fields) = Cardinality(SchemaNames)
    /\ s_out.fields[1].name = K_Zip
    /\ \E i \in 1..Len(s_doc) : s_doc[i][1] \in s_vars /\ s_doc[i][2] # <<>>

(***************************************************************************)
(* C3.  In a generate request that reaches rendering the keys of the       *)
(* Render Context are the names of the Field Definitions of the template:  *)
(* a submitted key that is no field name (the selectors too) is not in the *)
(* context, and a field the submission lacks is coerced from "".           *)
(***************************************************************************)
FieldOf(fs, name) == fs[CHOOSE i \in 1..Len(fs) : fs[i].name = name]

C3_ContextKeysAreFieldNames ==
    pc = "render" =>
        /\ DOMAIN ctx = FieldNames(fields)
        /\ \A k \in (DOMAIN form) \ FieldNames(fields) : k \notin DOMAIN ctx
        /\ \A n \in FieldNames(fields) \ DOMAIN data :
              /\ FieldOf(fields, n).type \notin {S_date, S_int, S_float}
              /\ ctx[n] = IF FieldOf(fields, n).type = S_bool
                          THEN PyBool(FALSE) ELSE PyStr(<<>>)

C3_Witness ==
    /\ pc = "render"
    /\ K_extra \in DOMAIN form
    /\ K_fmt \in DOMAIN form
    /\ K_tpl \in DOMAIN ctx
    /\ \E n \in FieldNames(fields) : n \in DOMAIN data
    /\ \E n \in FieldNames(fields) : n \notin DOMAIN form

(***************************************************************************)
(* C4.  In a request for PDF backend A is attempted first and once;        *)
(* backend B at most once and only after A raised ImportError or           *)
(* NotImplementedError; when A reports success that result is final and B  *)
(* is not invoked; no backend is attempted twice.                          *)
(***************************************************************************)
C4_BackendChain ==
    /\ AttemptsA <= 1
    /\ AttemptsB <= 1
    /\ AttemptsA = 1 => fmt = S_pdf
    /\ (pc \in {"locate", "run"} \/ (fmt = S_pdf /\ pc \in {"read", "respond"}))
          => AttemptsA = 1
    /\ (fmt = S_pdf /\ pc = "done" /\ response.status = 200) => AttemptsA = 1
    /\ pc = "run" => OutcomeA \in {"ImportError", "NotImplementedError"}
    /\ AttemptsB = 1 =>
          /\ Before(log, "A", "B")
          /\ OutcomeA \in {"ImportError", "NotImplementedError"}
    /\ OutcomeA \in {"ok", "ok, no file"} =>
          /\ AttemptsB = 0
          /\ pc \in {"read", "respond", "done"}
          /\ file_path = "pdf"
          /\ response.status = 200 =>
                response.body = Content(tpl, "pdf") /\ response.media = "application/pdf"

C4_Witness ==
    /\ pc = "done"
    /\ response.status = 200
    /\ AttemptsA = 1
    /\ AttemptsB = 1
    /\ OutcomeA = "NotImplementedError"

(***************************************************************************)
(* C5.  PDF requested, backend A unavailable, and the external program     *)
(* found neither through SOFFICE_PATH nor, in that order, as soffice and   *)
(* libreoffice: the request fails with ConverterNotFound (the              *)
(* HTTPException "LibreOffice not found"), no subprocess is started and no *)
(* artifact is returned.                                                   *)
(***************************************************************************)
NotFoundAnywhere ==
    /\ Count(log, "env: none") = 1
    /\ Count(log, "which soffice: none") = 1
    /\ Count(log, "which libreoffice: none") = 1

C5_ConverterNotFound ==
    /\ pc = "run" => ~NotFoundAnywhere
    /\ Position(log, "which soffice: none") # 0 =>
          Before(log, "env: none", "which soffice: none")
    /\ Position(log, "which libreoffice: none") # 0 =>
          Before(log, "which soffice: none", "which libreoffice: none")
    /\ NotFoundAnywhere =>
          /\ fmt = S_pdf
          /\ OutcomeA \in {"ImportError", "NotImplementedError"}
          /\ pc = "done"
          /\ response = HttpError("LibreOffice not found")
          /\ AttemptsB = 0
          /\ response.body = "" /\ buf = ""

C5_Witness ==
    /\ NotFoundAnywhere
    /\ pc = "done"
    /\ response.detail = "LibreOffice not found"
    /\ OutcomeA = "ImportError"


(***************************************************************************)
(* C6.  Metadata that declares for a variable of the template a type       *)
(* outside {string, date, int, float, bool} makes the building of the      *)
(* field schema fail with MetadataInvalid naming the field; the unknown    *)
(* type never passes as string.                                            *)
(***************************************************************************)
\* the variables of the cached Placeholder Set of template name whose
\* metadata declares an unknown type
UnknownTyped(vs, name) ==
    LET meta == load_yaml_meta(TemplateFile(name).meta)
    IN  {v \in vs \cap DOMAIN meta :
            "type" \in DOMAIN meta[v] /\ meta[v].type \notin FieldTypes}

C6_UnknownTypeRejected ==
    /\ (fill_out # <<>> /\ last_get.ok /\ CacheIndex(cache, fill_out.tpl) # 0) =>
          (UnknownTyped(cache[CacheIndex(cache, fill_out.tpl)].value, fill_out.tpl) # {}
              => ~fill_out.ok /\ fill_out.err = "MetadataInvalid")
    /\ pc = "render" => \A i \in 1..Len(fields) : fields[i].type \in FieldTypes

(***************************************************************************)
(* C7.  For a field of type date every input YYYY-MM-DD is coerced to the  *)
(* same date written DD.MM.YYYY, and every other input (the empty string   *)
(* of an absent field too) makes the request fail with FieldInvalid        *)
(* identifying the field and the expected type "date", nothing rendered.   *)
(***************************************************************************)
\* a date written YYYY-MM-DD: four, two and two digits, a day that exists
IsYmd(raw) ==
    /\ Len(raw) = 10
    /\ raw[5] = "-" /\ raw[8] = "-"
    /\ AllDigits(SubSeq(raw, 1, 4)) /\ AllDigits(SubSeq(raw, 6, 7))
    /\ AllDigits(SubSeq(raw, 9, 10))
    /\ DecimalValue(SubSeq(raw, 6, 7)) \in 1..12
    /\ DecimalValue(SubSeq(raw, 9, 10)) >= 1
    /\ DecimalValue(SubSeq(raw, 9, 10)) <=
          DaysInMonth(DecimalValue(SubSeq(raw, 1, 4)), DecimalValue(SubSeq(raw, 6, 7)))

\* the same date written DD.MM.YYYY
AsDmy(raw) ==
    SubSeq(raw, 9, 10) \o <<".">> \o SubSeq(raw, 6, 7) \o <<".">> \o SubSeq(raw, 1, 4)

C7_DateCoercion ==
    \A i \in 1..Len(fields) :
        (fields[i].type = S_date /\ pc \in {"render", "done"}) =>
            LET n   == fields[i].name
                raw == Get(data, n, <<>>)
            IN  IF IsYmd(raw)
                THEN pc = "render" => ctx[n] = PyStr(AsDmy(raw))
                ELSE /\ pc = "done"
                     /\ response.status # 200
                     /\ response.field = n
                     /\ response.expected = S_date

(***************************************************************************)
(* C8.  A generate request that creates a temporary directory releases it  *)
(* before it ends, on every exit path; no directory of a finished request  *)
(* remains; the bytes returned are read in full before the directory is    *)
(* removed.                                                                *)
(***************************************************************************)
C8_TempDirReleased ==
    /\ pc \in {"idle", "done"} => tmpDirs = {}
    /\ (pc = "done" /\ work_dir # 0) =>
          /\ work_dir \notin tmpDirs
          /\ Count(log, "cleanup") = 1
          /\ log[Len(log)] = "cleanup"
    /\ pc \in {"convert", "locate", "run", "read", "respond"} =>
          tmpDirs = {work_dir}
    /\ (pc = "done" /\ response.status = 200) =>
          /\ response.body = Content(tpl, file_path)
          /\ Before(log, "read", "cleanup")

C8_Witness ==
    /\ pc = "done"
    /\ work_dir # 0
    /\ response.detail = "stderr"
    /\ Before(log, "mkdtemp", "cleanup")

(***************************************************************************)
(* C9.  get_vars runs the fallback scan only when the primary facility is  *)
(* unavailable or fails on a template that is valid markup; a template     *)
(* that is not document markup makes get_vars fail (TemplateCorrupt), the  *)
(* fallback does not run, and no Placeholder Set is returned or memoized   *)
(* for that name.                                                          *)
(***************************************************************************)
Corrupt(name) == TemplateFile(name).kind # "valid"

C9_FallbackAndCorrupt ==
    /\ last_get.fallback =>
          ~Corrupt(last_get.name) /\ last_get.lib = "AttributeError"
    /\ (last_get.name # <<>> /\ Corrupt(last_get.name)) =>
          /\ ~last_get.ok
          /\ last_get.err \in TemplateCorruptErrors
          /\ ~last_get.fallback
          /\ ~last_get.hit
    /\ \A i \in 1..Len(cache) : ~Corrupt(cache[i].key)
    /\ \A n \in returned : ~Corrupt(n)
    /\ (pc = "render" \/ (fill_out # <<>> /\ fill_out.ok)) => ~Corrupt(last_get.name)

C9_Witness ==
    /\ last_get.name = N_badxml
    /\ ~last_get.ok
    /\ \E i \in 1..Len(cache) : cache[i].key = N_nums /\ K_count \notin cache[i].value

(***************************************************************************)
(* C10.  Once get_vars has returned a Placeholder Set for a template name, *)
(* every later call for that name returns that set without running the     *)
(* extraction again, whatever calls for this and other names come between. *)
(***************************************************************************)
C10_MemoizedForProcessLifetime == recomputed = {}

=============================================================================
